---- MODULE Spec2Model ----
(***************************************************************************)
(* Water Judge: the result-synthesis pipeline of src/src/judge.py (the     *)
(* simplified four-field service with its report cache) and of             *)
(* src/src/simple_judge.py (the comprehensive service).                    *)
(*                                                                         *)
(* Strings are abstracted to a value record [kind, tag, n]: tag names the  *)
(* literal or template the text comes from (and the use case it embeds),   *)
(* n is its length in characters.  A completion text is a sequence of      *)
(* tokens: the two brace characters, a prose character, and whole JSON     *)
(* members ("key": value).  A purification text that the plan generator    *)
(* splits is a sequence of step markers and chunks of other text.  The     *)
(* sha256 cache key is modelled by the hashed text itself (collisions are  *)
(* out of scope); a signature by the signer and the text it signed.        *)
(***************************************************************************)
EXTENDS Integers, Sequences, FiniteSets, TLC

\* ------------------------------------------------------------------ bounds

\* Requests served in one behaviour of Spec and of SpecThreads.
MaxCalls == 3
\* Worker threads that run finalize_report at the same time in SpecThreads.
NumThreads == 2
\* Distinct request bodies submitted in one behaviour of SpecCache.
MaxDocs == 34
\* Request bodies of SpecCache that are submitted more than once (the first ones).
HotDocs == 1
\* Submissions of one such request body in one behaviour of SpecCache.
MaxSubmits == 3

\* Longest completion text, in tokens, of SpecExtract.
MaxTextLen == 5
\* Longest instruction text, in markers and chunks, of SpecPlan.
MaxPlanLen == 7

\* ------------------------------------------------------- program constants

\* judge.py:149  if len(_FINALIZE_ORDER) > 32
CacheLimit == 32
\* judge.py:134  result.get('health_percentage', 50); judge.py:263
DefaultHealth == 50

\* ------------------------------------------------------------------ values

Num(v) == [kind |-> "num", tag |-> "", n |-> v]
Str(tag, len) == [kind |-> "str", tag |-> tag, n |-> len]
Null == [kind |-> "null", tag |-> "", n |-> 0]

\* Python's None for a use case (a JSON null in the request body).
NoneUse == "<None>"
\* A use case that is a JSON array (a Python list, unhashable).
ListUse == "<list>"
\* str(use_case) as an f-string renders it.
UseText(u) == IF u = NoneUse THEN "None" ELSE IF u = ListUse THEN "['x']" ELSE u

\* f"{v}%": the text of v followed by a percent sign.
Percent(v) == [kind |-> "pct", tag |-> v.kind \o ":" \o v.tag, n |-> v.n]

\* A value a reader would call non-empty: a number, or text of positive length.
NonEmpty(v) ==
    \/ v.kind \in {"num", "pct", "bool"}
    \/ v.kind \in {"str", "obj"} /\ v.n > 0

\* dict.get(k, default)
Get(d, k, default) == IF k \in DOMAIN d THEN d[k] ELSE default

EmptyDict == [k \in {} |-> Null]

\* ------------------------------------------------------- completion texts

LB == [t |-> "{", k |-> "", v |-> Null]
RB == [t |-> "}", k |-> "", v |-> Null]
Prose == [t |-> "prose", k |-> "", v |-> Null]
Member(k, v) == [t |-> "member", k |-> k, v |-> v]

Positions(text, tok) == {i \in DOMAIN text : text[i] = tok}

Min(S) == CHOOSE x \in S : \A y \in S : x <= y
Max(S) == CHOOSE x \in S : \A y \in S : x >= y

\* json.loads of a span "{ ... }": an object iff everything between the
\* braces is a member; a repeated key keeps its last value.
JsonValid(span) ==
    /\ Len(span) >= 2
    /\ span[1] = LB
    /\ span[Len(span)] = RB
    /\ \A i \in 2..(Len(span) - 1) : span[i].t = "member"

JsonObject(span) ==
    LET ms == SubSeq(span, 2, Len(span) - 1)
        keys == {ms[i].k : i \in DOMAIN ms}
    IN [k \in keys |-> ms[Max({i \in DOMAIN ms : ms[i].k = k})].v]

\* ExtractJSON with the match starting at the last "{" instead of the first.
ExtractJSONLastOpen(text) ==
    LET ls == Positions(text, LB)
        rs == Positions(text, RB)
    IN IF ls = {} \/ rs = {} \/ Max(rs) < Max(ls)
       THEN [st |-> "nomatch", obj |-> EmptyDict]
       ELSE LET span == SubSeq(text, Max(ls), Max(rs))
            IN IF JsonValid(span)
               THEN [st |-> "ok", obj |-> JsonObject(span)]
               ELSE [st |-> "invalid", obj |-> EmptyDict]

\* re.search(r'\{.*\}', text, re.DOTALL) then json.loads(match.group()):
\* the match runs from the first "{" to the last "}" of the text.
ExtractJSON(text) ==
    LET ls == Positions(text, LB)
        rs == Positions(text, RB)
    IN IF ls = {} \/ rs = {} \/ Max(rs) < Min(ls)
       THEN [st |-> "nomatch", obj |-> EmptyDict]
       ELSE LET span == SubSeq(text, Min(ls), Max(rs))
            IN IF JsonValid(span)
               THEN [st |-> "ok", obj |-> JsonObject(span)]
               ELSE [st |-> "invalid", obj |-> EmptyDict]

\* What client.chat.completions.create does in one call.
Raises == [kind |-> "raises", text |-> <<>>]
NoContent == [kind |-> "none", text |-> <<>>]
Text(t) == [kind |-> "text", text |-> t]

\* ------------------------------------------------- judge.py: the pipeline

HP == "health_percentage"
CSA == "current_safety_analysis"
RISK == "risk_analysis"
PURIFY == "purification_instructions"

create_concise_fallback(use_case) ==
    [k \in {HP, CSA, RISK, PURIFY} |->
        CASE k = HP -> Num(DefaultHealth)
          [] k = CSA -> Str("concise_fallback.current_safety_analysis:" \o UseText(use_case), 138 + Len(UseText(use_case)))
          [] k = RISK -> Str("concise_fallback.risk_analysis", 137)
          [] OTHER -> Str("concise_fallback.purification_instructions", 128)]

\* analyze_water with one retry of a failed completion call.
analyze_water_retrying(outcome, use_case) ==
    IF outcome.kind = "raises"
    THEN [result |-> create_concise_fallback(use_case), calls |-> 2, path |-> "call_failed"]
    ELSE IF outcome.kind = "none"
    THEN [result |-> create_concise_fallback(use_case), calls |-> 1, path |-> "no_content"]
    ELSE LET e == ExtractJSON(outcome.text)
         IN CASE e.st = "nomatch" ->
                   [result |-> create_concise_fallback(use_case), calls |-> 1, path |-> "no_json"]
              [] e.st = "invalid" ->
                   [result |-> create_concise_fallback(use_case), calls |-> 1, path |-> "bad_json"]
              [] OTHER ->
                   [result |-> e.obj, calls |-> 1, path |-> "json"]

\* analyze_water of judge.py: one completion call, then extraction; every
\* exception of the try block (the call, a None content, json.loads) ends in
\* the fallback.  calls counts the invocations of the completion client.
analyze_water(outcome, use_case) ==
    IF outcome.kind = "raises"
    THEN [result |-> create_concise_fallback(use_case), calls |-> 1, path |-> "call_failed"]
    ELSE IF outcome.kind = "none"
    THEN [result |-> create_concise_fallback(use_case), calls |-> 1, path |-> "no_content"]
    ELSE LET e == ExtractJSON(outcome.text)
         IN CASE e.st = "nomatch" ->
                   [result |-> create_concise_fallback(use_case), calls |-> 1, path |-> "no_json"]
              [] e.st = "invalid" ->
                   [result |-> create_concise_fallback(use_case), calls |-> 1, path |-> "bad_json"]
              [] OTHER ->
                   [result |-> e.obj, calls |-> 1, path |-> "json"]

\* FinalResult with the health default of the comprehensive fallback (45).
FinalResultOtherDefault(result) ==
    [water_health_percent |-> Percent(Get(result, HP, Num(45))),
     current_water_use_cases |-> Get(result, CSA, Str("default.current_water_use_cases", 46)),
     potential_dangers |-> Get(result, RISK, Str("default.potential_dangers", 44)),
     purify_for_selected_use |-> Get(result, PURIFY, Str("default.purify_for_selected_use", 46))]

\* finalize_report lines 133-138: the four-field report built from the result.
FinalResult(result) ==
    [water_health_percent |-> Percent(Get(result, HP, Num(DefaultHealth))),
     current_water_use_cases |-> Get(result, CSA, Str("default.current_water_use_cases", 46)),
     potential_dangers |-> Get(result, RISK, Str("default.potential_dangers", 44)),
     purify_for_selected_use |-> Get(result, PURIFY, Str("default.purify_for_selected_use", 46))]

\* ------------------------------------------ judge.py: the purification plan

\* judge.py:192  len(part.strip()) > 10
MinStepLen == 10
\* judge.py:198  len(steps) < 2
MinSteps == 2
\* judge.py:205  steps[:3]
PlanLimit == 3

\* An instruction text, as step_pattern sees it: a sequence of step markers
\* (a match of the pattern: "Step 2", a line start "3." or "- ") and chunks
\* of other text; n is the length of a chunk without its outer blanks.
Marker == [t |-> "marker", id |-> "", n |-> 6]
Chunk(id, len) == [t |-> "chunk", id |-> id, n |-> len]

RECURSIVE StrippedLen(_)
\* len(part.strip()) of a run of chunks.
StrippedLen(part) ==
    IF part = <<>> THEN 0 ELSE Head(part).n + StrippedLen(Tail(part))

\* A purification_instructions string whose markers and chunks are toks.
Instructions(toks) ==
    [kind |-> "str", tag |-> "instructions", n |-> StrippedLen(toks), toks |-> toks]

\* The markers and chunks of a string value; a text the model does not
\* break down (a template, a default) holds no marker.
TokensOf(v) ==
    IF "toks" \in DOMAIN v THEN v.toks
    ELSE IF v.n > 0 THEN <<Chunk(v.tag, v.n)>> ELSE <<>>

\* bool(v) of  if instructions:
Truthy(v) == v.kind # "null" /\ v.n # 0

\* The position of the k-th marker; 0 before the first, Len + 1 after the last.
Boundary(toks, k) ==
    LET ms == {i \in DOMAIN toks : toks[i].t = "marker"}
    IN IF k = 0 THEN 0
       ELSE IF k > Cardinality(ms) THEN Len(toks) + 1
       ELSE CHOOSE i \in ms : Cardinality({j \in ms : j <= i}) = k

\* re.split(step_pattern, instructions): the text before the first marker,
\* between two markers and after the last, empty ones included.
Split(toks) ==
    LET count == Cardinality({i \in DOMAIN toks : toks[i].t = "marker"})
    IN [k \in 1..(count + 1) |->
            SubSeq(toks, Boundary(toks, k - 1) + 1, Boundary(toks, k) - 1)]

\* f"Step {i+1}" and the titles of the static plan.
Title(text, number) == [text |-> text, number |-> number]
PlanStep(title, description) == [title |-> title, description |-> description]

\* Lines 189-195: part number i (from 0) of the split becomes a step titled
\* "Step i+1" when its stripped text is longer than 10 characters.
ParsedSteps(toks) ==
    LET parts == Split(toks)
        kept == SelectSeq([k \in DOMAIN parts |-> k],
                          LAMBDA k : StrippedLen(parts[k]) > MinStepLen)
    IN [j \in DOMAIN kept |-> PlanStep(Title("Step", kept[j]), parts[kept[j]])]

\* Lines 199-203.
StaticPlan ==
    <<PlanStep(Title("Filter water", 0), <<Chunk("static.filter", 54)>>),
      PlanStep(Title("Disinfect", 0), <<Chunk("static.disinfect", 46)>>),
      PlanStep(Title("Safe storage", 0), <<Chunk("static.storage", 49)>>)>>

\* ChoosePlan that keeps a single parsed step.
ChoosePlanKeepingOne(steps) ==
    LET chosen == IF Len(steps) < 1 THEN StaticPlan ELSE steps
    IN SubSeq(chosen, 1, IF Len(chosen) < PlanLimit THEN Len(chosen) ELSE PlanLimit)

\* ChoosePlan that returns every parsed step.
ChoosePlanUncut(steps) ==
    IF Len(steps) < MinSteps THEN StaticPlan ELSE steps

\* Lines 198-205: the static plan for fewer than two steps, then steps[:3].
ChoosePlan(steps) ==
    LET chosen == IF Len(steps) < MinSteps THEN StaticPlan ELSE steps
    IN SubSeq(chosen, 1, IF Len(chosen) < PlanLimit THEN Len(chosen) ELSE PlanLimit)

\* generate_detailed_plan(final_result, analysis): a second analyze_water
\* call (use case final_result.get('selected_use', 'drinking'), a key the
\* report never has) on the completion outcome, whose
\* purification_instructions are parsed.  re.split raises TypeError for a
\* truthy value that is not a string.
generate_detailed_plan(final_result, outcome) ==
    LET a == analyze_water(outcome, "drinking")
        instructions == Get(a.result, PURIFY, Str("", 0))
        raised == Truthy(instructions) /\ instructions.kind # "str"
        steps == IF Truthy(instructions) /\ ~raised
                 THEN ParsedSteps(TokensOf(instructions))
                 ELSE <<>>
    IN [raised |-> raised, calls |-> a.calls, instructions |-> instructions,
        steps |-> steps, plan |-> IF raised THEN <<>> ELSE ChoosePlan(steps)]

\* json.dumps(obj, ensure_ascii=False): the text of the object.
Json(obj) == [json |-> obj]

\* sign_decision: the account's signature of the message text.
sign_decision(text) == [signer |-> "account", message |-> text]

\* --------------------------------------- simple_judge.py: the pipeline

DA == "detailed_assessment"
ENV == "environmental_context"
SCI == "scientific_rationale"
LONG == "long_term_considerations"
EMERG == "emergency_protocols"
CLASS == "classification"
CONF == "confidence_score"
USE_CASE == "use_case"
PARAMS == "detailed_parameters"

CoreFields == {HP, CSA, RISK, PURIFY}
LongFields == {DA, ENV, SCI, LONG, EMERG}
ComprehensiveFields == CoreFields \cup LongFields \cup {CLASS, CONF, USE_CASE, PARAMS}

\* simple_judge.py:104  len(result.get("detailed_assessment", "")) < 800
MinDetail == 800
\* simple_judge.py:192  "health_percentage": 45
FallbackHealth == 45
\* simple_judge.py:202  "confidence_score": 0.3, in hundredths
FallbackConfidence == 30

\* A decimal number, in hundredths.
Dec(h) == [kind |-> "num", tag |-> "/100", n |-> h]

KnownUseCases == {"drinking", "irrigation", "human", "animals"}
\* TemplateOf without the default: the template named by the use case itself.
TemplateOfLiteral(use_case) == use_case

\* d.get(use_case, d["drinking"]) of the template tables
TemplateOf(use_case) == IF use_case \in KnownUseCases THEN use_case ELSE "drinking"

get_detailed_purification_steps(use_case) ==
    Str("purification_steps:" \o TemplateOf(use_case), 1200)

\* create_detailed_fallback with the error text also appended to the safety
\* analysis.
create_detailed_fallback_leaking(use_case, error) ==
    [k \in ComprehensiveFields \cup {"processing_limitation"} |->
        CASE k = HP -> Num(FallbackHealth)
          [] k = DA -> Str("detailed_fallback.detailed_assessment:" \o UseText(use_case), 400)
          [] k = CSA -> Str("detailed_fallback.current_safety_analysis:" \o UseText(use_case)
                                \o (IF error = "" THEN "" ELSE "+error:" \o error), 300)
          [] k = PURIFY -> get_detailed_purification_steps(use_case)
          [] k = SCI -> Str("detailed_fallback.scientific_rationale" \o (IF error = "" THEN "" ELSE "+error:" \o error), 300)
          [] k = CLASS -> Str("requires_purification", 21)
          [] k = CONF -> Dec(FallbackConfidence)
          [] k = USE_CASE -> IF use_case = NoneUse THEN Null ELSE Str(use_case, Len(use_case))
          [] k = PARAMS -> [kind |-> "obj", tag |-> "detailed_fallback.detailed_parameters", n |-> 5]
          [] k = "processing_limitation" -> [kind |-> "bool", tag |-> "True", n |-> 1]
          [] OTHER -> Str("detailed_fallback." \o k, 300)]

\* create_detailed_fallback: error is "" when no error text is passed.
create_detailed_fallback(use_case, error) ==
    [k \in ComprehensiveFields \cup {"processing_limitation"} |->
        CASE k = HP -> Num(FallbackHealth)
          [] k = DA -> Str("detailed_fallback.detailed_assessment:" \o UseText(use_case), 400)
          [] k = CSA -> Str("detailed_fallback.current_safety_analysis:" \o UseText(use_case), 300)
          [] k = PURIFY -> get_detailed_purification_steps(use_case)
          [] k = SCI -> Str("detailed_fallback.scientific_rationale" \o (IF error = "" THEN "" ELSE "+error:" \o error), 300)
          [] k = CLASS -> Str("requires_purification", 21)
          [] k = CONF -> Dec(FallbackConfidence)
          [] k = USE_CASE -> IF use_case = NoneUse THEN Null ELSE Str(use_case, Len(use_case))
          [] k = PARAMS -> [kind |-> "obj", tag |-> "detailed_fallback.detailed_parameters", n |-> 5]
          [] k = "processing_limitation" -> [kind |-> "bool", tag |-> "True", n |-> 1]
          [] OTHER -> Str("detailed_fallback." \o k, 300)]

\* enhance_response: result.update({...}) with the eight template texts.
EnhancedFields == LongFields \cup {CSA, RISK, PURIFY}

\* enhance_response that replaces the short field only and keeps the other
\* texts the model gave.
enhance_response_merging(result, use_case) ==
    [k \in DOMAIN result \cup EnhancedFields |->
        IF k = DA \/ k \notin DOMAIN result
        THEN CASE k = DA -> Str("enhance.detailed_assessment:" \o TemplateOf(use_case), 900)
               [] k = CSA -> Str("enhance.current_safety_analysis:" \o UseText(use_case), 500)
               [] k = PURIFY -> get_detailed_purification_steps(use_case)
               [] OTHER -> Str("enhance." \o k, 500)
        ELSE result[k]]

enhance_response(result, use_case) ==
    [k \in DOMAIN result \cup EnhancedFields |->
        IF k \in EnhancedFields
        THEN CASE k = DA -> Str("enhance.detailed_assessment:" \o TemplateOf(use_case), 900)
               [] k = CSA -> Str("enhance.current_safety_analysis:" \o UseText(use_case), 500)
               [] k = PURIFY -> get_detailed_purification_steps(use_case)
               [] OTHER -> Str("enhance." \o k, 500)
        ELSE result[k]]

\* len(v) of the quality gate raises TypeError for a number or a null.
HasLen(v) == v.kind \in {"str", "obj"}

\* analyze_water of simple_judge.py.
analyze_water_detailed(outcome, use_case) ==
    IF outcome.kind = "raises"
    THEN [result |-> create_detailed_fallback(use_case, "completion error"), calls |-> 1, path |-> "call_failed"]
    ELSE IF outcome.kind = "none"
    THEN [result |-> create_detailed_fallback(use_case, "TypeError"), calls |-> 1, path |-> "no_content"]
    ELSE LET e == ExtractJSON(outcome.text)
         IN CASE e.st = "nomatch" ->
                   [result |-> create_detailed_fallback(use_case, ""), calls |-> 1, path |-> "no_json"]
              [] e.st = "invalid" ->
                   [result |-> create_detailed_fallback(use_case, "JSONDecodeError"), calls |-> 1, path |-> "bad_json"]
              [] OTHER ->
                   LET da == Get(e.obj, DA, Str("", 0))
                   IN IF ~HasLen(da)
                      THEN [result |-> create_detailed_fallback(use_case, "TypeError"), calls |-> 1, path |-> "gate_failed"]
                      ELSE IF da.n < MinDetail
                      THEN [result |-> enhance_response(e.obj, use_case), calls |-> 1, path |-> "enhanced"]
                      ELSE [result |-> e.obj, calls |-> 1, path |-> "json"]

\* The keys analyze_water_endpoint reads from the result (lines 270-283).
EndpointReads == (ComprehensiveFields \ {USE_CASE})

\* django_format of analyze_water_endpoint.
DjangoFormat(result, use_case) ==
    [k \in {"water_health_percent", "current_water_use_cases", "potential_dangers",
            "purify_for_selected_use", "selected_use", "purify_title", DA, ENV, SCI,
            LONG, EMERG, PARAMS, "confidence", CLASS} |->
        CASE k = "water_health_percent" -> Percent(result[HP])
          [] k = "current_water_use_cases" -> result[CSA]
          [] k = "potential_dangers" -> result[RISK]
          [] k = "purify_for_selected_use" -> result[PURIFY]
          [] k = "selected_use" -> Str(use_case, Len(use_case))
          [] k = "purify_title" -> Str("Purify for " \o use_case \o " Use", 15 + Len(use_case))
          [] k = "confidence" -> result[CONF]
          [] OTHER -> result[k]]

\* The result of the except branch of analyze_water_endpoint (lines 308-314).
ErrorResult(fallback, error) ==
    [k \in {"water_health_percent", "current_water_use_cases", "potential_dangers",
            "purify_for_selected_use", "error"} |->
        CASE k = "water_health_percent" -> Percent(fallback[HP])
          [] k = "current_water_use_cases" -> fallback[CSA]
          [] k = "potential_dangers" -> fallback[RISK]
          [] k = "purify_for_selected_use" -> fallback[PURIFY]
          [] OTHER -> Str("error:" \o error, 20)]

\* ----------------------------------------------------------- request bodies

\* A request body (CombinedInput): id stands for its free-form analysis
\* fields; location is the shape of its 'location' entry; use_case is its
\* 'use_case' entry.
Absent == "<absent>"
Body(id, location, use_case) == [id |-> id, location |-> location, use_case |-> use_case]

\* The bodies of Spec and SpecThreads.
Requests ==
    {Body(1, Absent, Absent),
     Body(2, "dict_hint", "irrigation"),
     Body(3, "string", "drinking"),
     Body(4, "null", NoneUse)}

\* The bodies sent to judge_endpoint in Spec: those above and one whose use
\* case is a list.
JudgeRequests == Requests \cup {Body(6, Absent, ListUse)}

\* The bodies sent to analyze_water_endpoint in Spec: those and one with a
\* use case no template table knows.
EndpointRequests == JudgeRequests \cup {Body(5, Absent, "aquarium")}

\* The bodies of SpecCache, numbered in the order of their first submission.
BulkBody(i) == Body(i, Absent, Absent)

\* data.get("use_case", "drinking")  (judge.py:295, simple_judge.py:244)
UseCaseOf(data) == IF data.use_case = Absent THEN "drinking" ELSE data.use_case

\* finalize_report line 123: combined.get('location', {}).get('hint') raises
\* AttributeError when the 'location' entry is not a mapping.
LocationRaises(data) == data.location \in {"string", "null"}

\* finalize_report line 141: the text that is hashed (use_case or '').
cache_key(data, use_case) ==
    <<data, IF use_case = NoneUse THEN "" ELSE use_case>>

\* finalize_report line 141: combined_json + "\n" + (use_case or '') raises
\* TypeError for a use case that is a list.
KeyRaises(data) == UseCaseOf(data) = ListUse

\* dict.get(use_case, default) of the template tables raises TypeError for
\* an unhashable use case (simple_judge.py:131, 187).
Unhashable(use_case) == use_case = ListUse

\* analyze_water_endpoint lines 259-260: location.items() raises
\* AttributeError for a non-empty location that is not a mapping.
InputRaises(data) == data.location = "string"

\* ----------------------------------------------------- completion outcomes

ModelText == Str("model", 60)
EmptyText == Str("model", 0)

GoodMembers ==
    <<Member(HP, Num(72)), Member(CSA, ModelText), Member(RISK, ModelText), Member(PURIFY, ModelText)>>

\* The completion outcomes of the simplified service in Spec and
\* SpecThreads: failure, no content, and texts with and without an
\* embedded object.
Completions ==
    {Raises, NoContent,
     Text(<<Prose, Prose>>),
     Text(<<Prose, LB, Prose, RB>>),
     Text(<<Prose, LB>> \o GoodMembers \o <<RB, Prose>>),
     Text(<<LB, Prose, RB, LB>> \o GoodMembers \o <<RB>>),
     Text(<<LB, Member(CSA, ModelText), Member(RISK, ModelText), Member(PURIFY, ModelText), RB>>),
     Text(<<LB, Member(HP, Num(150)), Member(CSA, EmptyText), RB>>),
     Text(<<LB, Member(HP, Num(0 - 5)), Member(RISK, Null), RB>>)}

ShortA == Chunk("a", 8)
ShortB == Chunk("b", 9)
LongA == Chunk("A", 20)
LongB == Chunk("B", 24)

\* A completion whose JSON holds the four fields, the purification
\* instructions being v.
WithInstructions(v) ==
    Text(<<LB, Member(HP, Num(72)), Member(CSA, ModelText), Member(RISK, ModelText),
           Member(PURIFY, v), RB>>)

\* The completion outcomes of finalize_report in Spec: those above and one
\* whose purification instructions are two marked steps.
EndpointCompletions ==
    Completions \cup {WithInstructions(Instructions(<<Marker, LongA, Marker, LongB>>))}

\* The outcomes of the completion call of generate_detailed_plan in Spec:
\* failure, instructions without a marker, with marked steps, and
\* instructions that are no text.
PlanCompletions ==
    {Raises,
     Text(<<LB>> \o GoodMembers \o <<RB>>),
     WithInstructions(Instructions(<<LongA, Marker, LongB, Marker, LongA>>)),
     WithInstructions(Num(5))}

\* The completion outcomes of SpecCache.
BulkCompletions(i) ==
    IF i <= HotDocs
    THEN {Raises, Text(<<LB>> \o GoodMembers \o <<RB>>), Text(<<LB, Member(HP, Num(90)), RB>>)}
    ELSE {Text(<<LB>> \o GoodMembers \o <<RB>>)}

\* The members of a comprehensive answer whose detailed_assessment has
\* length n, without the keys in drop.
Comprehensive(n, hp, conf, drop) ==
    LET all == <<Member(HP, Num(hp)), Member(DA, Str("model", n)), Member(CSA, ModelText),
                 Member(RISK, ModelText), Member(PURIFY, ModelText), Member(ENV, ModelText),
                 Member(SCI, ModelText), Member(LONG, ModelText), Member(EMERG, ModelText),
                 Member(CLASS, Str("safe_for_drinking", 17)), Member(CONF, Dec(conf)),
                 Member(USE_CASE, Str("drinking", 8)),
                 Member(PARAMS, [kind |-> "obj", tag |-> "model", n |-> 5])>>
    IN SelectSeq(all, LAMBDA m : m.k \notin drop)

\* The completion outcomes of the comprehensive service in Spec.
DetailedCompletions ==
    {Raises, NoContent,
     Text(<<Prose, Prose>>),
     Text(<<Prose, LB, Prose, RB>>),
     Text(<<Prose, LB>> \o Comprehensive(MinDetail, 72, 85, {}) \o <<RB, Prose>>),
     Text(<<LB>> \o Comprehensive(MinDetail - 1, 72, 85, {}) \o <<RB>>),
     Text(<<LB>> \o Comprehensive(MinDetail, 72, 85, {CLASS}) \o <<RB>>),
     Text(<<LB>> \o Comprehensive(MinDetail, 150, 170, {}) \o <<RB>>),
     Text(<<LB>> \o Comprehensive(0, 72, 85, {DA, HP}) \o <<RB>>),
     Text(<<LB, Member(DA, Null), RB>>),
     Text(<<LB, RB>>)}

\* ------------------------------------------------------------------- state

Threads == 1..NumThreads

VARIABLES
    variant,    \* which service runs: "judge" (judge.py) or "simple_judge"
    cache,      \* _FINALIZE_CACHE: cache key -> report object
    order,      \* _FINALIZE_ORDER: the cache keys in insertion order
    pc,         \* per thread: where it is in finalize_report
    th,         \* per thread: the locals of its finalize_report call
    submits,    \* per body id: how many times it was submitted
    started,    \* requests started so far
    last,       \* the last finalize_report call that returned
    resp,       \* the last response of analyze_water_endpoint
    reply,      \* the response of judge_endpoint to the request in hand
    born,       \* history: cache key -> number of the insertion that stored it last
    clock       \* history: insertions into the cache so far

vars == <<variant, cache, order, pc, th, submits, started, last, resp, reply, born, clock>>

\* A report object: ref is its identity (body id, submission number), val the
\* dict it holds.  Reports are never mutated after they are built.
NoObject == [ref |-> <<0, 0>>, val |-> FinalResult(EmptyDict)]
NoKey == <<Body(0, Absent, Absent), "">>

IdleLocals ==
    [data |-> Body(0, Absent, Absent), outcome |-> Raises, key |-> NoKey,
     result |-> EmptyDict, final |-> NoObject, calls |-> 0, path |-> "",
     hit |-> FALSE, old |-> NoKey, ret |-> NoObject]

NoSignature == [signer |-> "", message |-> Json(EmptyDict)]

NoResponse ==
    [status |-> "none", data |-> Body(0, Absent, Absent), outcome |-> Raises, result |-> EmptyDict,
     analysis |-> EmptyDict, signed |-> EmptyDict, signature |-> NoSignature,
     fallback |-> EmptyDict, calls |-> 0, path |-> "", keys |-> {}]

NoReply ==
    [status |-> "none", data |-> Body(0, Absent, Absent), result |-> FinalResult(EmptyDict),
     signature |-> NoSignature, plan |-> <<>>, steps |-> <<>>, instructions |-> Null,
     outcome |-> Raises, calls |-> 0, plan_calls |-> 0, keys |-> {}]

InitShared ==
    /\ cache = EmptyDict
    /\ order = <<>>
    /\ pc = [p \in Threads |-> "idle"]
    /\ th = [p \in Threads |-> IdleLocals]
    /\ submits = [i \in 0..(MaxDocs + 1) |-> 0]
    /\ started = 0
    /\ last = [key |-> NoKey, ret |-> NoObject, hit |-> FALSE]
    /\ resp = NoResponse
    /\ reply = NoReply
    /\ born = EmptyDict
    /\ clock = 0

Init == variant \in {"judge", "simple_judge"} /\ InitShared

InitJudge == variant = "judge" /\ InitShared

\* ------------------------------------------- finalize_report, step by step

\* Lines 114-141: build the prompt (raising on a malformed location), call
\* analyze_water, build final_result and the cache key (raising on a use
\* case that is no string).  Nothing shared is touched, so the lines are one
\* step.  The request in hand has no response yet.
Begin(p, data, outcome) ==
    /\ variant = "judge"
    /\ pc[p] = "idle"
    /\ submits' = [submits EXCEPT ![data.id] = @ + 1]
    /\ started' = started + 1
    /\ reply' = NoReply
    /\ IF LocationRaises(data) \/ KeyRaises(data)
       THEN /\ pc' = [pc EXCEPT ![p] = "raised"]
            /\ th' = [th EXCEPT ![p] =
                         [IdleLocals EXCEPT !.data = data,
                                            !.calls = IF LocationRaises(data) THEN 0 ELSE 1]]
       ELSE LET use_case == UseCaseOf(data)
                a == analyze_water(outcome, use_case)
                obj == [ref |-> <<data.id, submits[data.id] + 1>>, val |-> FinalResult(a.result)]
            IN /\ pc' = [pc EXCEPT ![p] = "get"]
               /\ th' = [th EXCEPT ![p] =
                            [IdleLocals EXCEPT !.data = data, !.outcome = outcome,
                                               !.key = cache_key(data, use_case),
                                               !.result = a.result, !.final = obj,
                                               !.calls = a.calls, !.path = a.path]]
    /\ UNCHANGED <<variant, cache, order, last, resp, born, clock>>

\* CacheGet with a hit answered by the report just built, not the cached one.
CacheGetReturnsBuilt(p) ==
    /\ pc[p] = "get"
    /\ IF th[p].key \in DOMAIN cache
       THEN /\ pc' = [pc EXCEPT ![p] = "done"]
            /\ th' = [th EXCEPT ![p].hit = TRUE, ![p].ret = th[p].final]
       ELSE /\ pc' = [pc EXCEPT ![p] = "store"]
            /\ th' = th
    /\ UNCHANGED <<variant, cache, order, submits, started, last, resp, reply, born, clock>>

\* CacheGet as a least-recently-used cache would do it: a hit moves the key
\* to the back of the ledger.
CacheGetTouches(p) ==
    /\ pc[p] = "get"
    /\ IF th[p].key \in DOMAIN cache
       THEN /\ pc' = [pc EXCEPT ![p] = "done"]
            /\ th' = [th EXCEPT ![p].hit = TRUE, ![p].ret = cache[th[p].key]]
            /\ order' = Append(SelectSeq(order, LAMBDA k : k # th[p].key), th[p].key)
       ELSE /\ pc' = [pc EXCEPT ![p] = "store"]
            /\ th' = th
            /\ order' = order
    /\ UNCHANGED <<variant, cache, submits, started, last, resp, reply, born, clock>>

\* CacheGet as a write-through cache would do it: a hit returns the cached
\* report and then stores the report just built under the key.
CacheGetRefreshes(p) ==
    /\ pc[p] = "get"
    /\ IF th[p].key \in DOMAIN cache
       THEN /\ pc' = [pc EXCEPT ![p] = "done"]
            /\ th' = [th EXCEPT ![p].hit = TRUE, ![p].ret = cache[th[p].key]]
            /\ cache' = [cache EXCEPT ![th[p].key] = th[p].final]
       ELSE /\ pc' = [pc EXCEPT ![p] = "store"]
            /\ th' = th
            /\ cache' = cache
    /\ UNCHANGED <<variant, order, submits, started, last, resp, reply, born, clock>>

\* Lines 142-144: cached = _FINALIZE_CACHE.get(cache_key); return it if present.
CacheGet(p) ==
    /\ pc[p] = "get"
    /\ IF th[p].key \in DOMAIN cache
       THEN /\ pc' = [pc EXCEPT ![p] = "done"]
            /\ th' = [th EXCEPT ![p].hit = TRUE, ![p].ret = cache[th[p].key]]
       ELSE /\ pc' = [pc EXCEPT ![p] = "store"]
            /\ th' = th
    /\ UNCHANGED <<variant, cache, order, submits, started, last, resp, reply, born, clock>>

\* Line 147: _FINALIZE_CACHE[cache_key] = final_result
CacheStore(p) ==
    /\ pc[p] = "store"
    /\ cache' = [k \in DOMAIN cache \cup {th[p].key} |->
                    IF k = th[p].key THEN th[p].final ELSE cache[k]]
    /\ born' = [k \in DOMAIN born \cup {th[p].key} |->
                    IF k = th[p].key THEN clock + 1 ELSE born[k]]
    /\ clock' = clock + 1
    /\ pc' = [pc EXCEPT ![p] = "append"]
    /\ UNCHANGED <<variant, order, th, submits, started, last, resp, reply>>

\* Line 148: _FINALIZE_ORDER.append(cache_key)
OrderAppend(p) ==
    /\ pc[p] = "append"
    /\ order' = Append(order, th[p].key)
    /\ pc' = [pc EXCEPT ![p] = "evict"]
    /\ UNCHANGED <<variant, cache, th, submits, started, last, resp, reply, born, clock>>

\* Evict that pops the oldest key of the ledger but leaves its report in the
\* cache.
EvictLedgerOnly(p) ==
    /\ pc[p] = "evict"
    /\ IF Len(order) > CacheLimit
       THEN /\ order' = Tail(order)
            /\ th' = [th EXCEPT ![p].old = Head(order), ![p].ret = th[p].final]
       ELSE /\ order' = order
            /\ th' = [th EXCEPT ![p].ret = th[p].final]
    /\ pc' = [pc EXCEPT ![p] = "done"]
    /\ UNCHANGED <<variant, cache, submits, started, last, resp, reply, born, clock>>

\* Lines 149-153: over the limit, pop the oldest key of the ledger and drop
\* it from the cache; return final_result.
Evict(p) ==
    /\ pc[p] = "evict"
    /\ IF Len(order) > CacheLimit
       THEN /\ order' = Tail(order)
            /\ cache' = [k \in DOMAIN cache \ {Head(order)} |-> cache[k]]
            /\ th' = [th EXCEPT ![p].old = Head(order), ![p].ret = th[p].final]
       ELSE /\ order' = order
            /\ cache' = cache
            /\ th' = [th EXCEPT ![p].ret = th[p].final]
    /\ pc' = [pc EXCEPT ![p] = "done"]
    /\ UNCHANGED <<variant, submits, started, last, resp, reply, born, clock>>

\* The call is over: its caller has the report (or the exception).
Return(p) ==
    /\ pc[p] \in {"done", "raised"}
    /\ last' = IF pc[p] = "done"
               THEN [key |-> th[p].key, ret |-> th[p].ret, hit |-> th[p].hit]
               ELSE last
    /\ pc' = [pc EXCEPT ![p] = "idle"]
    /\ th' = [th EXCEPT ![p] = IdleLocals]
    /\ UNCHANGED <<variant, cache, order, submits, started, resp, reply, born, clock>>

\* The statements of finalize_report after line 141.
Finalize(p) ==
    \/ CacheGet(p)
    \/ CacheStore(p)
    \/ OrderAppend(p)
    \/ Evict(p)

Step(p) ==
    \/ Finalize(p)
    \/ Return(p)

\* ----------------------------------------------- judge.py: the endpoint

\* judge_endpoint from the return of finalize_report (line 298) to the
\* response: the plan (line 301, with the outcome of its completion call),
\* the signature of json.dumps(final_result) (line 304) and the body of
\* lines 306-312; an exception of finalize_report or of the plan ends in the
\* body of lines 316-319.
Respond(p, outcome) ==
    /\ variant = "judge"
    /\ pc[p] \in {"done", "raised"}
    /\ LET final_result == th[p].ret.val
           g == generate_detailed_plan(final_result, outcome)
       IN reply' =
            IF pc[p] = "raised"
            THEN [NoReply EXCEPT !.status = "error", !.data = th[p].data,
                                 !.calls = th[p].calls,
                                 !.keys = {"error", "judge_address"}]
            ELSE IF g.raised
            THEN [NoReply EXCEPT !.status = "error", !.data = th[p].data,
                                 !.instructions = g.instructions, !.outcome = outcome,
                                 !.calls = th[p].calls, !.plan_calls = g.calls,
                                 !.keys = {"error", "judge_address"}]
            ELSE [status |-> "signed", data |-> th[p].data, result |-> final_result,
                  signature |-> sign_decision(Json(final_result)),
                  plan |-> g.plan, steps |-> g.steps, instructions |-> g.instructions,
                  outcome |-> outcome, calls |-> th[p].calls, plan_calls |-> g.calls,
                  keys |-> {"judge_address", "result", "purification_plan", "signature",
                            "input_processed"}]
    /\ last' = IF pc[p] = "done"
               THEN [key |-> th[p].key, ret |-> th[p].ret, hit |-> th[p].hit]
               ELSE last
    /\ pc' = [pc EXCEPT ![p] = "idle"]
    /\ th' = [th EXCEPT ![p] = IdleLocals]
    /\ UNCHANGED <<variant, cache, order, submits, started, resp, born, clock>>

\* ------------------------------------------ simple_judge.py: the endpoint

\* analyze_water_endpoint, one request from body to response.  The try block
\* raises on a malformed location (before the analysis), on a use case that
\* has no title() (None, a list), and on a key the result lacks; the except
\* branch answers with the detailed fallback and no signature.  For an
\* unhashable use case the template lookups raise: inside analyze_water
\* wherever it enhances or falls back (the fallback of its except clause
\* raises again), and in the fallback of the endpoint's except branch, whose
\* exception leaves the handler.
Analyze(data, outcome) ==
    /\ variant = "simple_judge"
    /\ started' = started + 1
    /\ LET use_case == UseCaseOf(data)
           d == analyze_water_detailed(outcome, use_case)
           a == IF InputRaises(data)
                THEN [result |-> EmptyDict, calls |-> 0, path |-> "input_raised"]
                ELSE IF Unhashable(use_case) /\ d.path # "json"
                THEN [result |-> EmptyDict, calls |-> d.calls, path |-> "fallback_raised"]
                ELSE d
           raised == \/ InputRaises(data)
                     \/ use_case \in {NoneUse, ListUse}
                     \/ ~(EndpointReads \subseteq DOMAIN a.result)
           fallback == create_detailed_fallback(use_case, "exception")
       IN resp' =
            IF raised /\ Unhashable(use_case)
            THEN [NoResponse EXCEPT !.status = "propagated", !.data = data,
                                    !.outcome = outcome, !.analysis = a.result,
                                    !.calls = a.calls, !.path = a.path]
            ELSE IF raised
            THEN [status |-> "error", data |-> data, outcome |-> outcome,
                  result |-> ErrorResult(fallback, "exception"),
                  analysis |-> a.result, signed |-> EmptyDict, signature |-> NoSignature,
                  fallback |-> fallback, calls |-> a.calls, path |-> a.path,
                  keys |-> {"judge_address", "result", "error"}]
            ELSE [status |-> "signed", data |-> data, outcome |-> outcome,
                  result |-> DjangoFormat(a.result, use_case),
                  analysis |-> a.result, signed |-> a.result,
                  signature |-> sign_decision(Json(a.result)),
                  fallback |-> EmptyDict, calls |-> a.calls, path |-> a.path,
                  keys |-> {"judge_address", "result", "signature", "comprehensive_analysis",
                            "input_processed"}]
    /\ UNCHANGED <<variant, cache, order, pc, th, submits, last, reply, born, clock>>

\* ---------------------------------------------------------- specifications

\* Spec: the service as deployed.  The handlers are coroutines that never
\* await, so the event loop runs each request to its end before the next.
Submit ==
    /\ started < MaxCalls
    /\ \E data \in JudgeRequests, outcome \in EndpointCompletions : Begin(1, data, outcome)

SubmitAnalyze ==
    /\ started < MaxCalls
    /\ \E data \in EndpointRequests, outcome \in DetailedCompletions : Analyze(data, outcome)

Answer == \E outcome \in PlanCompletions : Respond(1, outcome)

Next ==
    \/ Submit
    \/ Finalize(1)
    \/ Answer
    \/ SubmitAnalyze

Spec == Init /\ [][Next]_vars

\* SpecCache: the simplified service, one request at a time, enough distinct
\* bodies to fill the cache; bodies are numbered in the order of their first
\* submission and only the first HotDocs of them are resubmitted.
SubmitBulk ==
    \E i \in 1..MaxDocs :
        /\ i = 1 \/ submits[i - 1] > 0
        /\ submits[i] < (IF i <= HotDocs THEN MaxSubmits ELSE 1)
        /\ \E outcome \in BulkCompletions(i) : Begin(1, BulkBody(i), outcome)

NextCache ==
    \/ SubmitBulk
    \/ Step(1)

SpecCache == InitJudge /\ [][NextCache]_vars

\* SpecThreads: finalize_report called from NumThreads worker threads at
\* once (the thread-pool substrate of the design), its statements interleaved.
SubmitThread ==
    /\ started < MaxCalls
    /\ \E p \in Threads, data \in Requests, outcome \in Completions : Begin(p, data, outcome)

NextThreads ==
    \/ SubmitThread
    \/ \E p \in Threads : Step(p)

SpecThreads == InitJudge /\ [][NextThreads]_vars

\* SpecExtract: both services on every completion text of at most
\* MaxTextLen tokens over the alphabet below.
Alphabet ==
    {LB, RB, Prose, Member(HP, Num(72)), Member(DA, Str("model", MinDetail))}

TextsOfLen(n) == [1..n -> Alphabet]
Texts == UNION {TextsOfLen(n) : n \in 0..MaxTextLen}

SubmitText ==
    /\ started < 1
    /\ \E t \in Texts : Begin(1, Body(1, Absent, Absent), Text(t))

SubmitTextAnalyze ==
    /\ started < 1
    /\ \E t \in Texts : Analyze(Body(1, Absent, Absent), Text(t))

NextExtract ==
    \/ SubmitText
    \/ Step(1)
    \/ SubmitTextAnalyze

SpecExtract == Init /\ [][NextExtract]_vars

\* SpecPlan: one request to judge_endpoint whose plan is generated from
\* every instruction text of at most MaxPlanLen markers and chunks.
PlanAlphabet == {Marker, ShortA, LongA, LongB}

PlanTexts == UNION {[1..n -> PlanAlphabet] : n \in 0..MaxPlanLen}

SubmitPlan ==
    /\ started < 1
    /\ Begin(1, Body(1, Absent, Absent), Text(<<LB>> \o GoodMembers \o <<RB>>))

AnswerPlan ==
    /\ pc[1] = "done"
    /\ \E t \in PlanTexts : Respond(1, WithInstructions(Instructions(t)))

NextPlan ==
    \/ SubmitPlan
    \/ Finalize(1)
    \/ AnswerPlan

SpecPlan == InitJudge /\ [][NextPlan]_vars

\* ------------------------------------------------------------------ claims

Active(p) == pc[p] \in {"get", "store", "append", "evict", "done"}
ReportFields ==
    {"water_health_percent", "current_water_use_cases", "potential_dangers",
     "purify_for_selected_use"}
Field(report, f) ==
    CASE f = "water_health_percent" -> report.water_health_percent
      [] f = "current_water_use_cases" -> report.current_water_use_cases
      [] f = "potential_dangers" -> report.potential_dangers
      [] OTHER -> report.purify_for_selected_use

\* C1: a finalize_report call that hits the cache has made no call of the
\* completion API.
C1_HitMakesNoCompletionCall ==
    \A p \in Threads : (pc[p] = "done" /\ th[p].hit) => th[p].calls = 0

\* C2: a finalize_report call that directly follows a call with the same
\* (combined, use_case) returns the very object the first call returned and
\* left in the cache, whatever report the second call built from its own
\* completion.
C2_SecondCallReturnsCachedObject ==
    \A p \in Threads :
        (pc[p] = "done" /\ th[p].key = last.key) =>
            /\ th[p].ret = last.ret
            /\ th[p].key \in DOMAIN cache
            /\ cache[th[p].key] = last.ret

\* C2 witness: the second call has returned, and its own completion had
\* produced a report with other contents than the one it returned.
C2_Witness ==
    \E p \in Threads :
        /\ pc[p] = "done"
        /\ th[p].key = last.key
        /\ th[p].final.val # th[p].ret.val
        /\ th[p].ret.ref # th[p].final.ref

\* The key whose insertion is the oldest among the keys now cached.
Oldest == CHOOSE k \in DOMAIN cache : \A j \in DOMAIN cache : born[k] <= born[j]

NoDuplicates(seq) == \A i, j \in DOMAIN seq : seq[i] = seq[j] => i = j
KeysOf(seq) == {seq[i] : i \in DOMAIN seq}

\* C4: with finalize_report running on several threads, whenever no thread
\* is between its insertion and its eviction check, each key is in the
\* ledger at most once and the ledger's keys are the cache's keys.
C4_LedgerMatchesCache ==
    (\A p \in Threads : pc[p] \notin {"append", "evict"}) =>
        /\ NoDuplicates(order)
        /\ KeysOf(order) = DOMAIN cache

\* C5: finalize_report never raises, and the report it returns has its four
\* fields non-empty.
C5_ReportAlwaysComplete ==
    \A p \in Threads :
        /\ pc[p] # "raised"
        /\ pc[p] = "done" => \A f \in ReportFields : NonEmpty(Field(th[p].ret.val, f))

\* C6: the record analyze_water of simple_judge.py returns holds every field
\* of the comprehensive shape, non-empty.
C6_ComprehensiveRecordComplete ==
    (resp.status \in {"signed", "error"} /\ resp.calls > 0) =>
        \A f \in ComprehensiveFields :
            f \in DOMAIN resp.analysis /\ NonEmpty(resp.analysis[f])

PercentInRange(x) == x.kind = "pct" /\ x.tag = "num:" /\ x.n \in 0..100
ConfidenceInRange(x) == x.kind = "num" /\ x.tag = "/100" /\ x.n \in 0..100

\* C7: the health percentage a response carries is within 0..100 and the
\* confidence it carries within 0..1.
C7_EmittedNumbersInRange ==
    /\ \A p \in Threads :
          pc[p] = "done" => PercentInRange(th[p].ret.val.water_health_percent)
    /\ resp.status \in {"signed", "error"} => PercentInRange(resp.result["water_health_percent"])
    /\ resp.status = "signed" => ConfidenceInRange(resp.result["confidence"])

CallFails(o) == o.kind = "raises"
ExtractorFails(o) == o.kind = "text" /\ ExtractJSON(o.text).st # "ok"

C9_FailureGoesToFallbackOnce ==
    /\ \A p \in Threads :
          Active(p) =>
            /\ th[p].calls = 1
            /\ (CallFails(th[p].outcome) \/ ExtractorFails(th[p].outcome)) =>
                  th[p].result = create_concise_fallback(UseCaseOf(th[p].data))
    /\ (resp.status # "none" /\ ~InputRaises(resp.data)) =>
            /\ resp.calls = 1
            /\ ((CallFails(resp.outcome) \/ ExtractorFails(resp.outcome))
                    /\ ~Unhashable(UseCaseOf(resp.data))) =>
                  /\ DOMAIN resp.analysis = ComprehensiveFields \cup {"processing_limitation"}
                  /\ resp.analysis[HP] = Num(45)
                  /\ resp.analysis[PURIFY] = get_detailed_purification_steps(UseCaseOf(resp.data))

\* C9 witness: a call of either service whose completion call failed has
\* returned.
C9_Witness ==
    \/ \E p \in Threads : pc[p] = "done" /\ CallFails(th[p].outcome) /\ th[p].calls = 1
    \/ resp.status # "none" /\ CallFails(resp.outcome) /\ resp.calls = 1

\* A JSON object sits at positions i..j of the text.
Embedded(t, i, j) ==
    /\ i < j
    /\ t[i] = LB
    /\ t[j] = RB
    /\ \A k \in (i + 1)..(j - 1) : t[k].t = "member"

HasBracePair(t) == \E i, j \in DOMAIN t : i < j /\ t[i] = LB /\ t[j] = RB

\* The extractor's verdict on the text t, as the caller of analyze_water
\* sees it in path and result.
ExtractedAs(t, i, j, path, result) ==
    /\ path \in {"json", "enhanced"}
    /\ path = "json" => result = JsonObject(SubSeq(t, i, j))

\* C10 as claimed: whenever a JSON object is embedded in the text, whatever
\* surrounds it, the extractor returns that object; without a brace pair it
\* signals failure.
C10_AnyProse ==
    /\ \A p \in Threads :
          (Active(p) /\ th[p].outcome.kind = "text") =>
            LET t == th[p].outcome.text
            IN /\ \A i, j \in DOMAIN t :
                      Embedded(t, i, j) => ExtractedAs(t, i, j, th[p].path, th[p].result)
               /\ ~HasBracePair(t) => th[p].path = "no_json"
    /\ (resp.status # "none" /\ resp.outcome.kind = "text") =>
            LET t == resp.outcome.text
            IN /\ \A i, j \in DOMAIN t :
                      Embedded(t, i, j) => ExtractedAs(t, i, j, resp.path, resp.analysis)
               /\ ~HasBracePair(t) => resp.path = "no_json"

\* The text outside i..j has no "{" before i and no "}" after j.
CleanAround(t, i, j) ==
    /\ \A k \in 1..(i - 1) : t[k] # LB
    /\ \A k \in (j + 1)..Len(t) : t[k] # RB

\* C10 as amended: the extractor returns the embedded object when the text
\* before it holds no "{" and the text after it holds no "}"; without a
\* brace pair it signals failure.
C10_ProseWithoutBraces ==
    /\ \A p \in Threads :
          (Active(p) /\ th[p].outcome.kind = "text") =>
            LET t == th[p].outcome.text
            IN /\ \A i, j \in DOMAIN t :
                      (Embedded(t, i, j) /\ CleanAround(t, i, j)) =>
                          ExtractedAs(t, i, j, th[p].path, th[p].result)
               /\ ~HasBracePair(t) => th[p].path = "no_json"
    /\ (resp.status # "none" /\ resp.outcome.kind = "text") =>
            LET t == resp.outcome.text
            IN /\ \A i, j \in DOMAIN t :
                      (Embedded(t, i, j) /\ CleanAround(t, i, j)) =>
                          ExtractedAs(t, i, j, resp.path, resp.analysis)
               /\ ~HasBracePair(t) => resp.path = "no_json"

\* C10 witness: an object with a stray "}" before it and a stray "{" after
\* it has been extracted.
C10_Witness ==
    \E p \in Threads :
        /\ pc[p] = "done"
        /\ th[p].outcome.kind = "text"
        /\ th[p].outcome.text = <<RB, LB, Member(HP, Num(72)), RB, LB>>
        /\ th[p].path = "json"
        /\ th[p].result = [k \in {HP} |-> Num(72)]

\* The paths of analyze_water that end in its fallback record.
FallbackPaths == {"call_failed", "no_content", "no_json", "bad_json", "gate_failed"}

\* The use case of the request is a string (not null, not a list).
StringUse(u) == u \notin {NoneUse, ListUse}

\* A complete record of the detailed fallback's shape for the use case u:
\* every key present, every content field non-empty, the purification text
\* that of u's template (the "drinking" one for an unknown u), and the
\* use_case field the label u itself.
CompleteFallback(rec, u) ==
    /\ DOMAIN rec = ComprehensiveFields \cup {"processing_limitation"}
    /\ \A f \in DOMAIN rec \ {USE_CASE} : NonEmpty(rec[f])
    /\ rec[PURIFY] =
         Str("purification_steps:" \o
             (IF u \in {"drinking", "irrigation", "human", "animals"} THEN u ELSE "drinking"), 1200)
    /\ rec[USE_CASE] = Str(u, Len(u))

\* C11: whatever the use-case string (known or not) and whatever the error
\* text (none included), the fallback generators return a complete record:
\* the detailed one with the purification template of the use case, the
\* "drinking" template for an unknown use case, and the literal label in
\* use_case; the concise one with its four fields non-empty.
C11_FallbackIsTotal ==
    /\ (/\ resp.status \in {"signed", "error"}
        /\ resp.path \in FallbackPaths
        /\ StringUse(UseCaseOf(resp.data))) =>
            CompleteFallback(resp.analysis, UseCaseOf(resp.data))
    /\ (resp.status = "error" /\ StringUse(UseCaseOf(resp.data))) =>
            CompleteFallback(resp.fallback, UseCaseOf(resp.data))
    /\ \A p \in Threads :
          (Active(p) /\ th[p].path # "json") =>
            /\ DOMAIN th[p].result = {HP, CSA, RISK, PURIFY}
            /\ \A f \in DOMAIN th[p].result : NonEmpty(th[p].result[f])

\* C11 witness: a request with the unknown use case "aquarium" whose
\* completion call failed was answered from the fallback record, with the
\* "drinking" purification text and the label "aquarium".
C11_Witness ==
    /\ resp.status = "signed"
    /\ resp.path = "call_failed"
    /\ UseCaseOf(resp.data) = "aquarium"
    /\ resp.analysis[PURIFY].tag = "purification_steps:drinking"
    /\ resp.analysis[USE_CASE].tag = "aquarium"
    /\ resp.result["purify_for_selected_use"] = resp.analysis[PURIFY]

\* The long-form fields of the comprehensive shape: its eight texts.
LongFormFields == {DA, CSA, RISK, PURIFY, ENV, SCI, LONG, EMERG}

\* The name of the template a use case selects.
TemplateName(u) ==
    IF u \in {"drinking", "irrigation", "human", "animals"} THEN u ELSE "drinking"

\* The enhancement template of the long-form field f for the use case u.
EnhancementTemplate(f, u) ==
    CASE f = DA -> Str("enhance.detailed_assessment:" \o TemplateName(u), 900)
      [] f = CSA -> Str("enhance.current_safety_analysis:" \o UseText(u), 500)
      [] f = PURIFY -> Str("purification_steps:" \o TemplateName(u), 1200)
      [] OTHER -> Str("enhance." \o f, 500)

\* C12: when the object extracted from the completion has a
\* detailed_assessment shorter than 800 characters (799, 0, or none at all),
\* the record analyze_water returns holds, in each of the eight long-form
\* fields, the enhancement template of the use case and nothing the model
\* wrote; when it has 800 characters or more the record is the extracted
\* object itself.
C12_QualityGateBoundary ==
    (/\ resp.status \in {"signed", "error"}
     /\ resp.outcome.kind = "text"
     /\ ExtractJSON(resp.outcome.text).st = "ok"
     /\ ~InputRaises(resp.data)) =>
        LET obj == ExtractJSON(resp.outcome.text).obj
            da == IF DA \in DOMAIN obj THEN obj[DA] ELSE Str("", 0)
            u == UseCaseOf(resp.data)
        IN /\ (da.kind = "str" /\ da.n < 800) =>
                \A f \in LongFormFields :
                    /\ f \in DOMAIN resp.analysis
                    /\ resp.analysis[f] = EnhancementTemplate(f, u)
                    /\ f \in DOMAIN obj => resp.analysis[f] # obj[f]
           /\ (da.kind = "str" /\ da.n >= 800) => resp.analysis = obj

\* C12 witness: a complete comprehensive object whose detailed_assessment
\* has 799 characters was enhanced, its risk text replaced by the template.
C12_Witness ==
    /\ resp.status = "signed"
    /\ resp.path = "enhanced"
    /\ resp.outcome.kind = "text"
    /\ ExtractJSON(resp.outcome.text).obj[DA].n = 799
    /\ ExtractJSON(resp.outcome.text).obj[RISK] = ModelText
    /\ resp.analysis[RISK] = Str("enhance.risk_analysis", 500)
    /\ resp.analysis[HP] = Num(72)

\* The instruction text is three marked segments: marker, text, marker,
\* text, marker, text ("Step 1: ... Step 2: ... Step 3: ...").
ThreeMarked(toks) ==
    /\ Len(toks) = 6
    /\ \A i \in 1..6 : (toks[i].t = "marker") <=> (i % 2 = 1)

\* C13: for instructions made of three "Step n:"-marked segments the plan
\* has exactly three steps, titled "Step 1", "Step 2", "Step 3" in order,
\* each described by its own segment.
C13_ThreeMarkedSegments ==
    (reply.status = "signed" /\ ThreeMarked(TokensOf(reply.instructions))) =>
        LET toks == TokensOf(reply.instructions)
        IN /\ Len(reply.plan) = 3
           /\ \A k \in 1..3 :
                 reply.plan[k] = PlanStep(Title("Step", k), <<toks[2 * k]>>)

\* The segments of the split that count as steps: the numbers (from 1) of
\* the parts whose stripped text is longer than 10 characters, in order.
LongParts(toks) ==
    SelectSeq([k \in DOMAIN Split(toks) |-> k],
              LAMBDA k : StrippedLen(Split(toks)[k]) > 10)

\* C14: every segment of the split longer than 10 characters becomes one
\* parsed step, and the k-th kept step is titled "Step k" and described by
\* its segment, however many empty or short segments precede it.
C14_KeptStepsNumberedInSequence ==
    (reply.status = "signed" /\ reply.instructions.kind = "str" /\ reply.instructions.n > 0) =>
        LET toks == TokensOf(reply.instructions)
            long == LongParts(toks)
        IN /\ Len(reply.steps) = Len(long)
           /\ \A k \in DOMAIN reply.steps :
                 /\ reply.steps[k].title = Title("Step", k)
                 /\ reply.steps[k].description = Split(toks)[long[k]]

\* C15: the plan of a response is the plan parsed from the
\* purify_for_selected_use text of the report in that response, and no
\* completion call is made to produce it.
C15_PlanFromReportText ==
    reply.status = "signed" =>
        /\ reply.plan_calls = 0
        /\ reply.plan = ChoosePlan(ParsedSteps(TokensOf(reply.result.purify_for_selected_use)))

\* The fixed plan: Filter water, Disinfect, Safe storage.
FixedTitles == <<"Filter water", "Disinfect", "Safe storage">>

\* C16: whenever fewer than two segments of the instructions count as steps
\* (empty text, text without a marker, a single long segment), the plan is
\* the fixed three steps Filter water, Disinfect, Safe storage, in that
\* order, and holds no parsed step.
C16_FewStepsGiveStaticPlan ==
    (/\ reply.status = "signed"
     /\ reply.instructions.kind = "str"
     /\ Len(LongParts(TokensOf(reply.instructions))) < 2) =>
        /\ Len(reply.plan) = 3
        /\ \A k \in 1..3 :
              /\ reply.plan[k].title = Title(FixedTitles[k], 0)
              /\ reply.plan[k].description[1].id \in
                    {"static.filter", "static.disinfect", "static.storage"}
        /\ reply.plan = StaticPlan

\* C16 witness: the instructions held one long segment and one short one;
\* the parsed step was dropped for the fixed plan.
C16_Witness ==
    /\ reply.status = "signed"
    /\ TokensOf(reply.instructions) = <<Marker, LongA, Marker, ShortA>>
    /\ Len(reply.steps) = 1
    /\ reply.plan[1].title.text = "Filter water"
    /\ reply.plan[3].title.text = "Safe storage"

C18_SignatureCoversReturnedResult ==
    /\ reply.status = "signed" => reply.signature = sign_decision(Json(reply.result))
    /\ resp.status = "signed" => resp.signature = sign_decision(Json(resp.result))

\* C19: no exception leaves a request handler; a request that raised is
\* answered with an error and the judge address and no signature, and every
\* response without an error key carries a signature.
C19_HandlerErrorsAnsweredUnsigned ==
    /\ reply.status # "propagated"
    /\ resp.status # "propagated"
    /\ reply.status = "error" =>
          ({"error", "judge_address"} \subseteq reply.keys /\ "signature" \notin reply.keys)
    /\ resp.status = "error" =>
          ({"error", "judge_address"} \subseteq resp.keys /\ "signature" \notin resp.keys)
    /\ (reply.status \in {"signed", "error"} /\ "error" \notin reply.keys) =>
          "signature" \in reply.keys
    /\ (resp.status \in {"signed", "error"} /\ "error" \notin resp.keys) =>
          "signature" \in resp.keys

\* The fields a caller reads as a safety claim.
SafetyFields == {HP, CSA, RISK, PURIFY, CLASS}

\* The record holds the error text nowhere but in scientific_rationale:
\* every other field is what the fallback gives when no error is passed.
ErrorOnlyInRationale(rec, u) ==
    /\ DOMAIN rec = DOMAIN create_detailed_fallback(u, "")
    /\ \A f \in DOMAIN rec \ {SCI} : rec[f] = create_detailed_fallback(u, "")[f]

\* C20: the safety-bearing fields of a fallback record and of an enhanced
\* record do not depend on the exception: a detailed fallback record equals
\* the error-free one in every field but scientific_rationale, the concise
\* fallback is the same record whatever failed, and the texts of an enhanced
\* record are the enhancement templates.
C20_NoErrorTextInSafetyFields ==
    /\ (resp.status \in {"signed", "error"} /\ resp.path \in FallbackPaths) =>
          ErrorOnlyInRationale(resp.analysis, UseCaseOf(resp.data))
    /\ resp.status = "error" =>
          /\ ErrorOnlyInRationale(resp.fallback, UseCaseOf(resp.data))
          /\ \A f \in {"water_health_percent", "current_water_use_cases",
                       "potential_dangers", "purify_for_selected_use"} :
                resp.result[f] =
                    ErrorResult(create_detailed_fallback(UseCaseOf(resp.data), ""), "")[f]
    /\ (resp.status \in {"signed", "error"} /\ resp.path = "enhanced") =>
          \A f \in SafetyFields \cap LongFormFields :
              resp.analysis[f] = EnhancementTemplate(f, UseCaseOf(resp.data))
    /\ \A p \in Threads :
          (Active(p) /\ th[p].path # "json") =>
              \A f \in {HP, CSA, RISK, PURIFY} :
                  th[p].result[f] \in
                      {Num(50),
                       Str("concise_fallback.current_safety_analysis:" \o UseText(UseCaseOf(th[p].data)),
                           138 + Len(UseText(UseCaseOf(th[p].data)))),
                       Str("concise_fallback.risk_analysis", 137),
                       Str("concise_fallback.purification_instructions", 128)}

\* C20 witness: a failed completion call was answered from a fallback record
\* whose scientific_rationale holds the error text and whose safety analysis
\* is the error-free text.
C20_Witness ==
    /\ resp.status = "signed"
    /\ resp.path = "call_failed"
    /\ resp.analysis[SCI].tag = "detailed_fallback.scientific_rationale+error:completion error"
    /\ resp.analysis[CSA].tag = "detailed_fallback.current_safety_analysis:drinking"
    /\ resp.result["current_water_use_cases"] = resp.analysis[CSA]

\* C21: with finalize_report calls running one at a time, between calls and
\* when a call has returned the cache holds at most 32 reports, no key is in
\* the ledger twice and the ledger's keys are the cache's keys; a call that
\* hits the cache changes neither the cache nor the ledger.
C21_SequentialCacheInvariant ==
    /\ [](pc[1] \in {"idle", "get", "done", "raised"} =>
            /\ Cardinality(DOMAIN cache) <= 32
            /\ Len(order) <= 32
            /\ NoDuplicates(order)
            /\ KeysOf(order) = DOMAIN cache)
    /\ [][(pc[1] = "get" /\ th[1].key \in DOMAIN cache) =>
            (pc'[1] = "done" /\ th'[1].hit /\ cache' = cache /\ order' = order)]_vars

\* C21 witness: after more than 32 insertions, with the cache full, a call
\* has hit the cache.
C21_Witness ==
    /\ pc[1] = "done"
    /\ th[1].hit
    /\ clock > 32
    /\ Cardinality(DOMAIN cache) = 32
    /\ Len(order) = 32

\* C22: a report stays in the cache unchanged for as long as its key stays;
\* a call whose key is cached returns the cached report, whatever report it
\* built from its own completion, and leaves the cache as it is; only the
\* call that misses stores the report it built.
C22_FirstReportWins ==
    /\ [][\A k \in DOMAIN cache \cap DOMAIN cache' : cache'[k] = cache[k]]_vars
    /\ [][(pc[1] = "get" /\ th[1].key \in DOMAIN cache) =>
            /\ pc'[1] = "done"
            /\ th'[1].ret = cache[th[1].key]
            /\ cache'[th[1].key] = cache[th[1].key]]_vars
    /\ [][(pc[1] = "store") =>
            (th[1].key \notin DOMAIN cache /\ cache'[th[1].key] = th[1].final)]_vars
    /\ [](pc[1] = "done" =>
            IF th[1].hit
            THEN th[1].key \in DOMAIN cache /\ th[1].ret = cache[th[1].key]
            ELSE th[1].ret = th[1].final)

\* C22 witness: the fallback report cached after a failed completion call is
\* returned by a later call with the same key whose completion succeeded
\* and built a 72% report.
C22_Witness ==
    /\ pc[1] = "done"
    /\ th[1].hit
    /\ th[1].outcome.kind = "text"
    /\ th[1].path = "json"
    /\ th[1].final.val.water_health_percent = Percent(Num(72))
    /\ th[1].ret.val.water_health_percent = Percent(Num(50))
    /\ th[1].ret.val.potential_dangers.tag = "concise_fallback.risk_analysis"
    /\ cache[th[1].key] = th[1].ret

\* analyze_water returned a record that lacks a key the endpoint reads.
PartialRecord ==
    /\ resp.status # "none"
    /\ resp.path \in {"json", "enhanced"} \cup FallbackPaths
    /\ ~(EndpointReads \subseteq DOMAIN resp.analysis)

\* The unsigned fallback response of analyze_water_endpoint.
UnsignedFallbackResponse ==
    /\ resp.status = "error"
    /\ resp.result["water_health_percent"] = Percent(Num(45))
    /\ "error" \in resp.keys
    /\ "error" \in DOMAIN resp.result
    /\ "signature" \notin resp.keys

\* C23: whenever the record analyze_water returned lacks a key the /analyze
\* endpoint reads, the response is the unsigned fallback response: "45%",
\* an error key and no signature.
C23_PartialRecordGivesFallbackResponse ==
    PartialRecord => UnsignedFallbackResponse

====
